---- MODULE Spec2Model ----
(***************************************************************************)
(* Model of src/app.py: fetch_html (retry loop), extract_movies_from_soup  *)
(* (per-item field extraction over a parsed document tree) and main.       *)
(*                                                                         *)
(* Text is a sequence of one-character strings, so that the regular        *)
(* expressions and the numeric coercions of the code are computed on the   *)
(* characters.  A document node is a record [tag, attrs, kids, text]: a     *)
(* text node has tag "#text" and its characters in text; an element has    *)
(* its attributes in attrs (attribute name -> text) and its                *)
(* children, in document order, in kids.                                   *)
(***************************************************************************)
EXTENDS Integers, Sequences, FiniteSets, TLC

\* Optional values: Python's None, and a present value v
None == <<>>
Some(v) == <<v>>
Val(o) == o[1]

(***************************************************************************)
(* Characters and strings                                                  *)
(***************************************************************************)
Digits == {"0", "1", "2", "3", "4", "5", "6", "7", "8", "9"}

DigitVal(c) ==
    CASE c = "0" -> 0 [] c = "1" -> 1 [] c = "2" -> 2 [] c = "3" -> 3
      [] c = "4" -> 4 [] c = "5" -> 5 [] c = "6" -> 6 [] c = "7" -> 7
      [] c = "8" -> 8 [] c = "9" -> 9

IsDigit(c) == c \in Digits

IsSpace(c) == c \in {" ", "\t", "\n"}

\* re.I: the letters that occur in the patterns of the code
Lower(c) ==
    CASE c = "C" -> "c" [] c = "O" -> "o" [] c = "U" -> "u" [] c = "N" -> "n"
      [] c = "T" -> "t" [] c = "R" -> "r" [] c = "Y" -> "y" [] c = "G" -> "g"
      [] c = "E" -> "e" [] c = "M" -> "m" [] c = "I" -> "i"
      [] OTHER -> c

LowerStr(s) == [i \in 1..Len(s) |-> Lower(s[i])]

\* pattern p occurs in s at position i
MatchAt(s, p, i) ==
    /\ i + Len(p) - 1 <= Len(s)
    /\ \A j \in 1..Len(p) : s[i + j - 1] = p[j]

\* re.search(p, s) for a literal pattern p
Contains(s, p) == \E i \in 1..(Len(s) + 1) : MatchAt(s, p, i)

\* re.search(p, s, re.I) for a literal pattern p
ContainsI(s, p) == Contains(LowerStr(s), LowerStr(p))

\* str.strip()
Strip(s) ==
    LET keep == {i \in 1..Len(s) : ~IsSpace(s[i])}
    IN  IF keep = {} THEN <<>>
        ELSE LET lo == CHOOSE i \in keep : \A j \in keep : i <= j
                 hi == CHOOSE i \in keep : \A j \in keep : j <= i
             IN  SubSeq(s, lo, hi)

\* value of a non-empty run of decimal digits
RECURSIVE DecVal(_)
DecVal(ds) ==
    IF ds = <<>> THEN 0
    ELSE 10 * DecVal(SubSeq(ds, 1, Len(ds) - 1)) + DigitVal(ds[Len(ds)])

\* end of the maximal digit run that starts at i (i - 1 when s[i] is no digit)
RunEnd(s, i) ==
    LET ends == {j \in i..Len(s) : \A k \in i..j : IsDigit(s[k])}
    IN  IF ends = {} THEN i - 1
        ELSE CHOOSE j \in ends : \A k \in ends : k <= j

\* int(text): surrounding whitespace, an optional sign, decimal digits give
\* Some(n); anything else raises ValueError, reported as None
PyInt(s) ==
    LET t    == Strip(s)
        sign == IF t # <<>> /\ t[1] \in {"+", "-"} THEN 1 ELSE 0
        ds   == SubSeq(t, sign + 1, Len(t))
    IN  IF ds # <<>> /\ \A i \in 1..Len(ds) : IsDigit(ds[i])
        THEN IF sign = 1 /\ t[1] = "-" THEN Some(0 - DecVal(ds)) ELSE Some(DecVal(ds))
        ELSE None

\* re.search(r"\d{4}", s): the leftmost four consecutive digits, or None
Search4Digits(s) ==
    LET at == {i \in 1..Len(s) : i + 3 <= Len(s) /\ \A k \in i..(i + 3) : IsDigit(s[k])}
    IN  IF at = {} THEN None
        ELSE LET i == CHOOSE i \in at : \A j \in at : i <= j
             IN  Some(SubSeq(s, i, i + 3))

\* re.search(r"(\d+(\.\d+)?)", s).group(1): the leftmost maximal digit run,
\* with a following "." and digit run when there is one; or None
SearchNumber(s) ==
    LET at == {i \in 1..Len(s) : IsDigit(s[i])}
    IN  IF at = {} THEN None
        ELSE LET i == CHOOSE i \in at : \A j \in at : i <= j
                 e == RunEnd(s, i)
                 f == IF e + 2 <= Len(s) /\ s[e + 1] = "." THEN RunEnd(s, e + 2) ELSE e
             IN  Some(SubSeq(s, i, IF f >= e + 2 THEN f ELSE e))

\* a sequence of digits without its trailing zeros
RECURSIVE DropTrailingZeros(_)
DropTrailingZeros(ds) ==
    IF ds # <<>> /\ ds[Len(ds)] = "0" THEN DropTrailingZeros(SubSeq(ds, 1, Len(ds) - 1))
    ELSE ds

\* float(t) for t of the shape digits[.digits]: the number as its integer part
\* and its fractional digits (7.50 and 7.5 are the same number)
PyFloat(t) ==
    LET dots == {i \in 1..Len(t) : t[i] = "."}
        d    == IF dots = {} THEN Len(t) + 1 ELSE CHOOSE i \in dots : TRUE
    IN  [whole |-> DecVal(SubSeq(t, 1, d - 1)),
         frac  |-> DropTrailingZeros(SubSeq(t, d + 1, Len(t)))]

\* re.search(r"\d+\s*min", s, re.I)
SearchMin(s) ==
    LET l == LowerStr(s)
    IN  \E i \in 1..Len(l) :
           /\ IsDigit(l[i])
           /\ \E j \in (i + 1)..(Len(l) + 1) :
                 /\ \A k \in (i + 1)..(j - 1) : IsSpace(l[k])
                 /\ MatchAt(l, <<"m", "i", "n">>, j)

(***************************************************************************)
(* The document tree, as the parser library presents it to app.py          *)
(***************************************************************************)
NoAttrs == [n \in {} |-> <<>>]

TextNode(s) == [tag |-> "#text", attrs |-> NoAttrs, kids |-> <<>>, text |-> s]

Element(t, at, ks) == [tag |-> t, attrs |-> at, kids |-> ks, text |-> <<>>]

IsElement(n) == n.tag # "#text"

\* el.get(name)
Get(el, name) == IF name \in DOMAIN el.attrs THEN Some(el.attrs[name]) ELSE None

\* Python's `x or y` on optional text: x when it is present and non-empty
OrElse(x, y) == IF x # None /\ Val(x) # <<>> THEN x ELSE y

\* every node below n, in document order
RECURSIVE Descendants(_)
RECURSIVE DescendantsOfKids(_, _)
DescendantsOfKids(ks, i) ==
    IF i > Len(ks) THEN <<>>
    ELSE <<ks[i]>> \o Descendants(ks[i]) \o DescendantsOfKids(ks, i + 1)
Descendants(n) == DescendantsOfKids(n.kids, 1)

\* the whitespace-separated values of a class attribute
ClassTokens(s) ==
    {SubSeq(s, ij[1], ij[2]) : ij \in
        {ij \in (1..Len(s)) \X (1..Len(s)) :
            /\ ij[1] <= ij[2]
            /\ \A k \in ij[1]..ij[2] : ~IsSpace(s[k])
            /\ (ij[1] = 1 \/ IsSpace(s[ij[1] - 1]))
            /\ (ij[2] = Len(s) \/ IsSpace(s[ij[2] + 1]))}}

\* class_="c": one of the element's classes is c, or its class string is c
HasClass(el, c) ==
    /\ Get(el, "class") # None
    /\ (c \in ClassTokens(Val(Get(el, "class"))) \/ Val(Get(el, "class")) = c)

\* class_=re.compile(p): one of the classes, or the class string, contains p
ClassSearch(el, p) ==
    /\ Get(el, "class") # None
    /\ \/ \E c \in ClassTokens(Val(Get(el, "class"))) : Contains(c, p)
       \/ Contains(Val(Get(el, "class")), p)

\* href=re.compile(p)
HrefSearch(el, p) == Get(el, "href") # None /\ Contains(Val(Get(el, "href")), p)

\* el.string: the text of the only child, followed through only children
RECURSIVE StringOf(_)
StringOf(el) ==
    IF Len(el.kids) # 1 THEN None
    ELSE IF ~IsElement(el.kids[1]) THEN Some(el.kids[1].text)
    ELSE StringOf(el.kids[1])

\* string=re.compile(p, re.I): the pattern is searched in el.string
StringSearchI(el, p) == StringOf(el) # None /\ ContainsI(Val(StringOf(el)), p)

RECURSIVE JoinWithSpace(_)
JoinWithSpace(ss) ==
    IF ss = <<>> THEN <<>>
    ELSE IF Len(ss) = 1 THEN ss[1]
    ELSE ss[1] \o <<" ">> \o JoinWithSpace(Tail(ss))

\* el.get_text(separator=" ", strip=True)
GetText(el) ==
    LET texts    == SelectSeq(Descendants(el), LAMBDA n : ~IsElement(n))
        stripped == [i \in 1..Len(texts) |-> Strip(texts[i].text)]
    IN  JoinWithSpace(SelectSeq(stripped, LAMBDA t : t # <<>>))

\* el.find_all(): the elements below el, in document order; a find_all with
\* conditions is SelectSeq over them
Elements(el) == SelectSeq(Descendants(el), IsElement)

\* el.find_all(t)
FindAllTag(el, t) == SelectSeq(Elements(el), LAMBDA n : n.tag = t)

\* el.find_all(t, class_=c)
FindAllClass(el, t, c) == SelectSeq(Elements(el), LAMBDA n : n.tag = t /\ HasClass(n, c))

\* el.find_all(t, class_=re.compile(p))
FindAllClassRe(el, t, p) == SelectSeq(Elements(el), LAMBDA n : n.tag = t /\ ClassSearch(n, p))

\* el.find_all(t, href=re.compile(p))
FindAllHref(el, t, p) == SelectSeq(Elements(el), LAMBDA n : n.tag = t /\ HrefSearch(n, p))

\* el.find_all(t, string=re.compile(p, re.I))
FindAllString(el, t, p) == SelectSeq(Elements(el), LAMBDA n : n.tag = t /\ StringSearchI(n, p))

\* el.find_all(id=i)
FindAllId(el, i) == SelectSeq(Elements(el), LAMBDA n : Get(n, "id") = Some(i))

\* el.find(...): the first element that find_all(...) gives, or None
First(found) == IF found = <<>> THEN None ELSE Some(found[1])

(***************************************************************************)
(* Helpers of app.py                                                       *)
(***************************************************************************)
\* safe_text(el) for an optional element
safe_text(el) ==
    IF el = None THEN None
    ELSE LET txt == GetText(Val(el)) IN IF txt # <<>> THEN Some(txt) ELSE None

\* parse_duration(text)
parse_duration(text) == IF text = None \/ Val(text) = <<>> THEN None ELSE Some(Strip(Val(text)))

\* parse_imdb(text)
parse_imdb(text) ==
    IF text = None \/ Val(text) = <<>> THEN None
    ELSE LET m == SearchNumber(Val(text))
         IN  IF m # None THEN Some(PyFloat(Val(m))) ELSE None

(***************************************************************************)
(* The class names, ids and patterns that extract_movies_from_soup uses     *)
(***************************************************************************)
c_movies_list == <<"m", "o", "v", "i", "e", "s", "-", "l", "i", "s", "t">>

c_ml_item == <<"m", "l", "-", "i", "t", "e", "m">>

c_ml_mask == <<"m", "l", "-", "m", "a", "s", "k">>

c_mli_quality == <<"m", "l", "i", "-", "q", "u", "a", "l", "i", "t", "y">>

c_hidden_tip == <<"h", "i", "d", "d", "e", "n", "_", "t", "i", "p">>

c_f_desc == <<"f", "-", "d", "e", "s", "c">>

p_release_year == <<"/", "r", "e", "l", "e", "a", "s", "e", "-", "y", "e", "a", "r", "/">>

p_jt_imdb == <<"j", "t", "-", "i", "m", "d", "b">>

c_jt_info == <<"j", "t", "-", "i", "n", "f", "o">>

p_Country == <<"C", "o", "u", "n", "t", "r", "y", ":">>

p_Genre == <<"G", "e", "n", "r", "e", ":">>

p_genre == <<"/", "g", "e", "n", "r", "e", "/">>

(***************************************************************************)
(* extract_movies_from_soup: the body of the loop, for one item `it`.      *)
(* Each definition carries the name of the local variable it computes.     *)
(***************************************************************************)
\* it.get("data-movie-id") or it.get("data-id") or ""
data_id(it) == Val(OrElse(Get(it, "data-movie-id"), OrElse(Get(it, "data-id"), Some(<<>>))))

\* int(data_id) if data_id else None; None when int() raises
mid(it) == IF data_id(it) # <<>> THEN PyInt(data_id(it)) ELSE None

\* it.find("a", class_="ml-mask")
a(it) == First(FindAllClass(it, "a", c_ml_mask))

title(it) ==
    IF a(it) = None THEN None
    ELSE LET h2 == First(FindAllTag(Val(a(it)), "h2"))
         IN  IF h2 # None THEN safe_text(h2) ELSE None

\* a.get("href") or None
watch_link(it) == OrElse(Get(Val(a(it)), "href"), None)

language(it) ==
    safe_text(First(FindAllClass(Val(a(it)), "span", c_mli_quality)))

thumbnail(it) ==
    LET img == First(FindAllTag(Val(a(it)), "img"))
    IN  IF img = None THEN None
        ELSE OrElse(Get(Val(img), "data-original"), OrElse(Get(Val(img), "src"), None))

\* A local variable of the function: unassigned, or holding a value
Unassigned == [bound |-> FALSE, val |-> None]
Holding(v) == [bound |-> TRUE, val |-> v]

\* the locals that are assigned only under `if a:`; loc is what they hold
\* when the iteration starts
LocalsAfterMask(it, loc) ==
    IF a(it) = None THEN loc
    ELSE [watch_link |-> Holding(watch_link(it)),
          language   |-> Holding(language(it)),
          thumbnail  |-> Holding(thumbnail(it))]

\* it.find(id="hidden_tip"), the item itself when there is none
hidden(it) ==
    LET h == First(FindAllId(it, c_hidden_tip))
    IN  IF h = None THEN it ELSE Val(h)

description(it) ==
    LET desc_el == First(FindAllClass(hidden(it), "p", c_f_desc))
    IN  IF desc_el = None THEN None
        ELSE LET inner_p == First(FindAllTag(Val(desc_el), "p"))
             IN  IF inner_p # None THEN safe_text(inner_p) ELSE safe_text(desc_el)

year_tag(it) == First(FindAllHref(hidden(it), "a", p_release_year))

\* int(re.search(r"\d{4}", ytxt).group(0)); None when the search or int() raises
year(it) ==
    IF year_tag(it) = None THEN None
    ELSE LET ytxt == safe_text(year_tag(it))
             m    == IF ytxt = None THEN None ELSE Search4Digits(Val(ytxt))
         IN  IF m = None THEN None ELSE PyInt(Val(m))

year_link(it) == IF year_tag(it) = None THEN None ELSE Get(Val(year_tag(it)), "href")

imdb_rating(it) ==
    LET imdb_el == First(FindAllClassRe(hidden(it), "div", p_jt_imdb))
    IN  IF imdb_el = None THEN None ELSE parse_imdb(safe_text(imdb_el))

duration(it) ==
    LET jt_infos == FindAllClass(hidden(it), "div", c_jt_info)
        hits     == SelectSeq(jt_infos,
                        LAMBDA ji : safe_text(Some(ji)) # None
                                    /\ SearchMin(Val(safe_text(Some(ji)))))
    IN  IF hits = <<>> THEN None ELSE parse_duration(safe_text(Some(hits[1])))

\* hidden.find("div", string=re.compile(r"Country:", re.I))
block_country(it) ==
    First(FindAllString(hidden(it), "div", p_Country))

a_country(it) ==
    IF block_country(it) = None THEN None
    ELSE First(FindAllTag(Val(block_country(it)), "a"))

country(it) == IF a_country(it) = None THEN None ELSE safe_text(a_country(it))

country_link(it) == IF a_country(it) = None THEN None ELSE Get(Val(a_country(it)), "href")

\* hidden.find("div", string=re.compile(r"Genre:", re.I))
genre_div(it) ==
    First(FindAllString(hidden(it), "div", p_Genre))

\* the loop over genre_div.find_all("a"): the pairs <<g, href>> appended to
\* genres and genre_links
RECURSIVE LabelledGenres(_, _)
LabelledGenres(links, acc) ==
    IF links = <<>> THEN acc
    ELSE LET g == safe_text(Some(Head(links)))
         IN  LabelledGenres(Tail(links),
                IF g # None THEN Append(acc, <<Val(g), Get(Head(links), "href")>>)
                ELSE acc)

\* the fallback loop over hidden.find_all("a", href=re.compile(r"/genre/")),
\* which appends g only if g is not in genres yet
RECURSIVE FallbackGenres(_, _)
FallbackGenres(links, acc) ==
    IF links = <<>> THEN acc
    ELSE LET g == safe_text(Some(Head(links)))
         IN  FallbackGenres(Tail(links),
                IF g # None /\ \A k \in 1..Len(acc) : acc[k][1] # Val(g)
                THEN Append(acc, <<Val(g), Get(Head(links), "href")>>)
                ELSE acc)

\* the pairs <<genres[i], genre_links[i]>> after the genres block
genre_pairs(it) ==
    IF genre_div(it) # None
    THEN LabelledGenres(FindAllTag(Val(genre_div(it)), "a"), <<>>)
    ELSE FallbackGenres(
            FindAllHref(hidden(it), "a", p_genre), <<>>)

genres(it) == [i \in 1..Len(genre_pairs(it)) |-> genre_pairs(it)[i][1]]

\* the destination of every link the loop goes through, also of those whose
\* name is empty or was seen before
genre_links_OfEveryLink(it) ==
    LET ls == IF genre_div(it) # None
              THEN FindAllTag(Val(genre_div(it)), "a")
              ELSE FindAllHref(hidden(it), "a", p_genre)
    IN  [i \in 1..Len(ls) |-> Get(ls[i], "href")]

genre_links(it) == [i \in 1..Len(genre_pairs(it)) |-> genre_pairs(it)[i][2]]

\* the dict literal `movie = {...}`; loc holds the locals watch_link, language
\* and thumbnail as the iteration left them
movie(it, loc) ==
    [id          |-> mid(it),
     title       |-> title(it),
     year        |-> year(it),
     language    |-> loc.language.val,
     imdb_rating |-> imdb_rating(it),
     duration    |-> duration(it),
     thumbnail   |-> loc.thumbnail.val,
     description |-> description(it),
     country     |-> country(it),
     genres      |-> genres(it),
     links       |-> [watch   |-> loc.watch_link.val,
                      year    |-> year_link(it),
                      country |-> country_link(it),
                      genres  |-> genre_links(it)]]

\* without the inner try around int(data_id): its ValueError reaches the
\* except clause of the loop as well
RaisesInItem_IntUnguarded(it, loc) ==
    LET l == LocalsAfterMask(it, loc)
    IN  \/ ~l.language.bound \/ ~l.thumbnail.bound \/ ~l.watch_link.bound
        \/ (data_id(it) # <<>> /\ PyInt(data_id(it)) = None)

\* evaluating the dict literal reads a local that was never assigned:
\* UnboundLocalError, caught by the `except Exception` of the loop
RaisesInItem(it, loc) ==
    LET l == LocalsAfterMask(it, loc)
    IN  ~l.language.bound \/ ~l.thumbnail.bound \/ ~l.watch_link.bound

(***************************************************************************)
(* Input markup.  The items are built from a description d, a record that  *)
(* says, aspect by aspect, which shape of markup the item has.             *)
(***************************************************************************)
t_watch == <<"/", "w", "/">>

t_Film == <<"F", "i", "l", "m", " ">>

t_HD == <<"H", "D">>

t_thumb == <<"/", "t", "/">>

t_src == <<"/", "s", "/">>

t_Plot == <<"P", "l", "o", "t">>

t_Teaser == <<"T", "e", "a", "s", "e", "r", " ">>

t_year_href == <<"/", "r", "e", "l", "e", "a", "s", "e", "-", "y", "e", "a", "r", "/", "2", "0", "2", "1">>

t_2021 == <<"2", "0", "2", "1">>

t_Year_2021 == <<"Y", "e", "a", "r", ":", " ", "2", "0", "2", "1", " ">>

t_na == <<"n", "/", "a">>

t_12345 == <<"1", "2", "3", "4", "5">>

t_IMDb_75 == <<"I", "M", "D", "b", ":", " ", "7", ".", "5", "0">>

t_NA == <<"N", "/", "A">>

t_8 == <<"8">>

t_77_min == <<"7", "7", " ", "m", "i", "n">>

t_HD_q == <<"Q", "u", "a", "l", "i", "t", "y", ":", " ", "H", "D">>

t_Country_ == <<"C", "o", "u", "n", "t", "r", "y", ":", " ">>

t_country_ == <<"c", "o", "u", "n", "t", "r", "y", ":">>

t_India == <<"I", "n", "d", "i", "a">>

t_Country_India == <<"C", "o", "u", "n", "t", "r", "y", ":", " ", "I", "n", "d", "i", "a">>

t_country_href == <<"/", "c", "o", "u", "n", "t", "r", "y", "/", "i", "n">>

t_Genre_ == <<"G", "e", "n", "r", "e", ":", " ">>

t_Genre_Action == <<"G", "e", "n", "r", "e", ":", " ", "A", "c", "t", "i", "o", "n">>

t_Action == <<"A", "c", "t", "i", "o", "n">>

t_Drama == <<"D", "r", "a", "m", "a">>

t_comma == <<",", " ">>

t_genre_action == <<"/", "g", "e", "n", "r", "e", "/", "a", "c", "t", "i", "o", "n">>

t_genre_drama == <<"/", "g", "e", "n", "r", "e", "/", "d", "r", "a", "m", "a">>

t_Crime == <<"C", "r", "i", "m", "e">>

t_genre_crime == <<"/", "g", "e", "n", "r", "e", "/", "c", "r", "i", "m", "e">>

t_genre_action2 == <<"/", "g", "e", "n", "r", "e", "/", "a", "c", "t", "i", "o", "n", "-", "2">>

t_4 == <<"4">>

t_7 == <<" ", "7", " ">>

t_x1 == <<"x", "1">>

t_empty == <<>>

Attrs(f) == [n \in DOMAIN f |-> f[n]]

Div(cls, ks) == Element("div", Attrs("class" :> cls), ks)

Link(href, ks) == Element("a", Attrs("href" :> href), ks)

\* the primary link of an item: absent, complete, or an empty anchor;
\* n is a digit that tells the items of a page apart
MaskNodes(kind, n) ==
    CASE kind = "none" -> <<>>
      [] kind = "full" ->
           <<Element("a", Attrs(("class" :> c_ml_mask) @@ ("href" :> t_watch \o <<n>>)),
                <<Element("h2", NoAttrs, <<TextNode(t_Film \o <<n>>)>>),
                  Element("span", Attrs("class" :> c_mli_quality), <<TextNode(t_HD)>>),
                  Element("img", Attrs(("data-original" :> t_thumb \o <<n>>)
                                        @@ ("src" :> t_src \o <<n>>)), <<>>)>>)>>
      [] kind = "lazy" ->
           <<Element("a", Attrs(("class" :> c_ml_mask) @@ ("href" :> t_watch \o <<n>>)),
                <<Element("h2", NoAttrs, <<TextNode(t_Film \o <<n>>)>>),
                  Element("img", Attrs("src" :> t_src \o <<n>>), <<>>)>>)>>
      [] kind = "bare" ->
           <<Element("a", Attrs("class" :> c_ml_mask), <<>>)>>

IdAttrs(kind, n) ==
    CASE kind = "none"    -> <<>>
      [] kind = "movie"   -> ("data-movie-id" :> t_4 \o <<n>>)
      [] kind = "spaced"  -> ("data-id" :> t_7)
      [] kind = "both"    -> ("data-movie-id" :> t_empty) @@ ("data-id" :> t_4 \o <<n>>)
      [] kind = "text"    -> ("data-movie-id" :> t_x1) @@ ("data-id" :> t_4 \o <<n>>)

DescNodes(kind) ==
    CASE kind = "none"   -> <<>>
      [] kind = "plain"  -> <<Element("p", Attrs("class" :> c_f_desc), <<TextNode(t_Plot)>>)>>
      [] kind = "nested" ->
           <<Element("p", Attrs("class" :> c_f_desc),
                <<TextNode(t_Teaser), Element("p", NoAttrs, <<TextNode(t_Plot)>>)>>)>>

YearNodes(kind) ==
    CASE kind = "none"  -> <<>>
      [] kind = "plain" -> <<Div(c_jt_info, <<Link(t_year_href, <<TextNode(t_2021)>>)>>)>>
      [] kind = "label" -> <<Div(c_jt_info, <<Link(t_year_href, <<TextNode(t_Year_2021)>>)>>)>>
      [] kind = "long"  -> <<Div(c_jt_info, <<Link(t_year_href, <<TextNode(t_12345)>>)>>)>>
      [] kind = "text"  -> <<Div(c_jt_info, <<Link(t_year_href, <<TextNode(t_na)>>)>>)>>
      [] kind = "empty" -> <<Div(c_jt_info, <<Link(t_year_href, <<>>)>>)>>

ImdbNodes(kind) ==
    CASE kind = "none"    -> <<>>
      [] kind = "decimal" -> <<Div(p_jt_imdb, <<TextNode(t_IMDb_75)>>)>>
      [] kind = "integer" -> <<Div(p_jt_imdb, <<TextNode(t_8)>>)>>
      [] kind = "text"    -> <<Div(p_jt_imdb, <<TextNode(t_NA)>>)>>
      [] kind = "empty"   -> <<Div(p_jt_imdb, <<>>)>>

DurationNodes(kind) ==
    CASE kind = "none"  -> <<>>
      [] kind = "plain" -> <<Div(c_jt_info, <<TextNode(t_HD_q)>>),
                             Div(c_jt_info, <<TextNode(t_77_min)>>)>>

\* the country block: the label followed by a link (the shape of the spec's
\* example), the label inside the link, the label alone, a lower-case label
CountryNodes(kind) ==
    CASE kind = "none"      -> <<>>
      [] kind = "labelled"  ->
           <<Div(c_jt_info, <<TextNode(t_Country_), Link(t_country_href, <<TextNode(t_India)>>)>>)>>
      [] kind = "inlink"    ->
           <<Div(c_jt_info, <<Link(t_country_href, <<TextNode(t_Country_India)>>)>>)>>
      [] kind = "labelonly" -> <<Div(c_jt_info, <<TextNode(t_Country_)>>)>>
      [] kind = "lower"     ->
           <<Div(c_jt_info, <<Element("a", NoAttrs, <<TextNode(t_country_)>>)>>)>>

\* the genre block: the label followed by links, the label inside one link
\* (with or without a destination), the label alone, no label at all
GenreNodes(kind) ==
    CASE kind = "none"      -> <<>>
      [] kind = "labelled"  ->
           <<Div(c_jt_info, <<TextNode(t_Genre_),
                              Link(t_genre_action, <<TextNode(t_Action)>>), TextNode(t_comma),
                              Link(t_genre_drama, <<TextNode(t_Drama)>>)>>)>>
      [] kind = "repeated"  ->
           <<Div(c_jt_info, <<TextNode(t_Genre_),
                              Link(t_genre_action, <<TextNode(t_Action)>>), TextNode(t_comma),
                              Link(t_genre_action2, <<TextNode(t_Action)>>)>>)>>
      [] kind = "foreign"   ->
           <<Div(c_jt_info, <<TextNode(t_Genre_),
                              Link(t_country_href, <<TextNode(t_India)>>)>>)>>
      [] kind = "inlink"    ->
           <<Div(c_jt_info, <<Link(t_genre_action, <<TextNode(t_Genre_Action)>>)>>)>>
      [] kind = "nohref"    ->
           <<Div(c_jt_info, <<Element("a", NoAttrs, <<TextNode(t_Genre_Action)>>)>>)>>
      [] kind = "labelonly" -> <<Div(c_jt_info, <<TextNode(t_Genre_)>>)>>
      [] kind = "loose"     ->
           <<Link(t_genre_action, <<TextNode(t_Action)>>),
             Link(t_genre_drama, <<>>),
             Link(t_genre_action2, <<TextNode(t_Action)>>),
             Link(t_genre_drama, <<TextNode(t_Drama)>>)>>

\* a navigation link to a genre page, outside the genre block
NavNodes(kind) ==
    CASE kind = "none"  -> <<>>
      [] kind = "genre" -> <<Link(t_genre_crime, <<TextNode(t_Crime)>>)>>

DetailNodes(d) ==
    DescNodes(d.desc) \o YearNodes(d.year) \o ImdbNodes(d.imdb) \o DurationNodes(d.duration)
        \o CountryNodes(d.country) \o GenreNodes(d.genre) \o NavNodes(d.nav)

\* <div class="ml-item" ...> with the primary link and the details, which
\* are inside <div id="hidden_tip"> when d.tip says so
MkItem(d) ==
    Element("div", Attrs(("class" :> c_ml_item) @@ IdAttrs(d.id, d.n)),
        MaskNodes(d.mask, d.n) \o
        (IF d.tip THEN <<Element("div", Attrs("id" :> c_hidden_tip), DetailNodes(d))>>
         ELSE DetailNodes(d)))

\* an item with every block present and well formed
Base(n) ==
    [n |-> n, id |-> "movie", mask |-> "full", tip |-> TRUE, desc |-> "nested",
     year |-> "plain", imdb |-> "decimal", duration |-> "plain",
     country |-> "labelled", genre |-> "labelled", nav |-> "none"]

\* the page: a document with the container of the items, or without one
Page(its) ==
    Element("[document]", NoAttrs,
        <<Element("div", Attrs("class" :> c_movies_list), its)>>)

PageWithoutContainer ==
    Element("[document]", NoAttrs, <<Element("div", NoAttrs, <<TextNode(t_Plot)>>)>>)

(***************************************************************************)
(* Bounds, and the inputs drawn within them                                *)
(***************************************************************************)
MaxItems == 2

MaxFieldItems == 1

MaxTries == 3

MaxBackoff == 2

\* fetch_html's defaults, which main relies on
DefaultTries == 3

DefaultBackoff == 1

SeqsUpTo(S, n) == UNION {[1..k -> S] : k \in 0..n}

\* items that differ in the primary link
MaskDescs == {[Base(n) EXCEPT !.mask = m] : n \in {"1", "2"}, m \in {"none", "full", "bare"}}

\* items that differ from the well-formed one in one block (two for the genre
\* block next to a navigation link)
FieldDescs ==
    {Base("1"), [Base("1") EXCEPT !.mask = "none"], [Base("1") EXCEPT !.mask = "lazy"],
     [Base("1") EXCEPT !.tip = FALSE]}
    \cup {[Base("1") EXCEPT !.id = k] : k \in {"none", "spaced", "both", "text"}}
    \cup {[Base("1") EXCEPT !.desc = k] : k \in {"none", "plain"}}
    \cup {[Base("1") EXCEPT !.year = k] : k \in {"none", "label", "long", "text", "empty"}}
    \cup {[Base("1") EXCEPT !.imdb = k] : k \in {"none", "integer", "text", "empty"}}
    \cup {[Base("1") EXCEPT !.duration = "none"]}
    \cup {[Base("1") EXCEPT !.country = k] : k \in {"none", "inlink", "labelonly", "lower"}}
    \cup {[Base("1") EXCEPT !.genre = k, !.nav = v] :
            k \in {"none", "labelled", "repeated", "foreign", "inlink", "nohref",
                   "labelonly", "loose"},
            v \in {"none", "genre"}}

MaskPages == {PageWithoutContainer} \cup
             {Page([i \in DOMAIN ds |-> MkItem(ds[i])]) : ds \in SeqsUpTo(MaskDescs, MaxItems)}

FieldPages == {Page([i \in DOMAIN ds |-> MkItem(ds[i])]) : ds \in SeqsUpTo(FieldDescs, MaxFieldItems)}

\* response bodies (r.text): the empty string, and four pages of markup
Bodies == {"", "<no container>", "<no item>", "<item 1><item 2, no primary link>",
           "<item 1, no primary link>"}

EmptyDocument == Element("[document]", NoAttrs, <<>>)

\* BeautifulSoup(html, "lxml"): the document that the text parses to
BeautifulSoup(text) ==
    CASE text = "" -> EmptyDocument
      [] text = "<no container>" -> PageWithoutContainer
      [] text = "<no item>" -> Page(<<>>)
      [] text = "<item 1><item 2, no primary link>" ->
           Page(<<MkItem(Base("1")), MkItem([Base("2") EXCEPT !.mask = "none"])>>)
      [] text = "<item 1, no primary link>" ->
           Page(<<MkItem([Base("1") EXCEPT !.mask = "none"])>>)

(***************************************************************************)
(* State                                                                   *)
(***************************************************************************)
VARIABLES
    pc,        \* where the program is
    site,      \* the body the server sends with status 200
    tries,     \* fetch_html: parameter
    backoff,   \* fetch_html: parameter
    attempt,   \* fetch_html: loop variable
    html,      \* fetch_html's return value: None or Some(body)
    io,        \* the requests sent and the sleeps taken, in order
    soup,      \* the parsed document
    items,     \* extract_movies_from_soup: container.find_all(...)
    idx,       \* extract_movies_from_soup: position of the loop in items
    locals,    \* extract_movies_from_soup: watch_link, language, thumbnail
    movies,    \* extract_movies_from_soup: the list being built
    caught,    \* positions of the items whose exception the loop caught
    written    \* the documents written to OUTPUT_FILE, in order

vars == <<pc, site, tries, backoff, attempt, html, io, soup, items, idx, locals,
          movies, caught, written>>

fetchVars == <<tries, backoff, attempt, html, io>>

extractVars == <<soup, items, idx, locals, movies, caught>>

NoLocals == [watch_link |-> Unassigned, language |-> Unassigned, thumbnail |-> Unassigned]

Idle ==
    /\ tries = 0 /\ backoff = 0 /\ attempt = 0 /\ html = None /\ io = <<>>
    /\ soup = EmptyDocument /\ items = <<>> /\ idx = 0 /\ locals = NoLocals
    /\ movies = <<>> /\ caught = <<>> /\ written = <<>>

(***************************************************************************)
(* fetch_html                                                              *)
(***************************************************************************)
GetEvent(res) == [op |-> "get", res |-> res, secs |-> 0]

SleepEvent(secs) == [op |-> "sleep", res |-> "", secs |-> secs]

\* the delay of time.sleep after the attempt with loop variable `at`
SleepSecs(b, at) == b * (at + 1)

\* the off-by-one loop bound: one attempt too many
MoreAttempts_Inclusive(at, n) == at <= n

\* `for attempt in range(tries)`: the loop has another value for attempt
MoreAttempts(at, n) == at < n

\* one pass through the try block: session.get answers 200, answers another
\* status, or raises
Request ==
    /\ pc = "fetch_loop"
    /\ MoreAttempts(attempt, tries)
    /\ \E res \in {"200", "status", "error"} :
          /\ io' = Append(io, GetEvent(res))
          /\ IF res = "200"
             THEN html' = Some(site) /\ pc' = "fetch_returned"
             ELSE html' = html /\ pc' = "fetch_sleep"
    /\ UNCHANGED <<site, tries, backoff, attempt, written>>
    /\ UNCHANGED extractVars

\* time.sleep(backoff * (attempt+1)), then the next value of the loop variable
Sleep ==
    /\ pc = "fetch_sleep"
    /\ io' = Append(io, SleepEvent(SleepSecs(backoff, attempt)))
    /\ attempt' = attempt + 1
    /\ pc' = "fetch_loop"
    /\ UNCHANGED <<site, tries, backoff, html, written>>
    /\ UNCHANGED extractVars

\* range(tries) is exhausted: return None
Exhausted ==
    /\ pc = "fetch_loop"
    /\ ~MoreAttempts(attempt, tries)
    /\ html' = None
    /\ pc' = "fetch_returned"
    /\ UNCHANGED <<site, tries, backoff, attempt, io, written>>
    /\ UNCHANGED extractVars

(***************************************************************************)
(* extract_movies_from_soup                                                *)
(***************************************************************************)
container(doc) == First(FindAllClass(doc, "div", c_movies_list))

ItemsOf(doc) ==
    IF container(doc) = None THEN <<>>
    ELSE FindAllClass(Val(container(doc)), "div", c_ml_item)

\* movies = []; the container lookup; the early return; items = ...
ExtractStart ==
    /\ pc = "extract"
    /\ movies' = <<>>
    /\ caught' = <<>>
    /\ locals' = NoLocals
    /\ items' = ItemsOf(soup)
    /\ idx' = 1
    /\ pc' = IF container(soup) = None THEN "extract_returned" ELSE "extract_loop"
    /\ UNCHANGED <<site, soup, written>>
    /\ UNCHANGED fetchVars

\* the loop without its try: the exception of an item ends the loop
ProcessItem_StopAtError ==
    /\ pc = "extract_loop"
    /\ idx <= Len(items)
    /\ locals' = LocalsAfterMask(items[idx], locals)
    /\ IF RaisesInItem(items[idx], locals)
       THEN /\ caught' = Append(caught, idx)
            /\ movies' = movies
            /\ idx' = idx
            /\ pc' = "extract_returned"
       ELSE /\ movies' = Append(movies, movie(items[idx], LocalsAfterMask(items[idx], locals)))
            /\ caught' = caught
            /\ idx' = idx + 1
            /\ pc' = pc
    /\ UNCHANGED <<site, soup, items, written>>
    /\ UNCHANGED fetchVars

\* one iteration of `for it in items`: the try block and its except clause
ProcessItem ==
    /\ pc = "extract_loop"
    /\ idx <= Len(items)
    /\ locals' = LocalsAfterMask(items[idx], locals)
    /\ IF RaisesInItem(items[idx], locals)
       THEN /\ caught' = Append(caught, idx)
            /\ movies' = movies
       ELSE /\ movies' = Append(movies, movie(items[idx], LocalsAfterMask(items[idx], locals)))
            /\ caught' = caught
    /\ idx' = idx + 1
    /\ UNCHANGED <<pc, site, soup, items, written>>
    /\ UNCHANGED fetchVars

\* the loop is over: return movies
ExtractReturn ==
    /\ pc = "extract_loop"
    /\ idx > Len(items)
    /\ pc' = "extract_returned"
    /\ UNCHANGED <<site, written>>
    /\ UNCHANGED fetchVars
    /\ UNCHANGED extractVars

(***************************************************************************)
(* main                                                                    *)
(***************************************************************************)
\* html = fetch_html(URL)
MainFetch ==
    /\ pc = "main"
    /\ tries' = DefaultTries
    /\ backoff' = DefaultBackoff
    /\ attempt' = 0
    /\ pc' = "fetch_loop"
    /\ UNCHANGED <<site, html, io, written>>
    /\ UNCHANGED extractVars

\* `not html`: html is None or the empty string
NotHtml(h) == IF h = None THEN TRUE ELSE Val(h) = ""

\* if not html: print(...); return
MainGiveUp ==
    /\ pc = "fetch_returned"
    /\ NotHtml(html)
    /\ pc' = "done"
    /\ UNCHANGED <<site, written>>
    /\ UNCHANGED fetchVars
    /\ UNCHANGED extractVars

\* soup = BeautifulSoup(html, "lxml"); the call of extract_movies_from_soup
MainParse ==
    /\ pc = "fetch_returned"
    /\ ~NotHtml(html)
    /\ soup' = BeautifulSoup(Val(html))
    /\ pc' = "extract"
    /\ UNCHANGED <<site, items, idx, locals, movies, caught, written>>
    /\ UNCHANGED fetchVars

\* json.dump({"movies": movies}, f)
MainWrite ==
    /\ pc = "extract_returned"
    /\ written' = Append(written, [movies |-> movies])
    /\ pc' = "done"
    /\ UNCHANGED site
    /\ UNCHANGED fetchVars
    /\ UNCHANGED extractVars

(***************************************************************************)
(* Specifications                                                          *)
(***************************************************************************)
\* the program: main()
Init ==
    /\ pc = "main"
    /\ site \in Bodies
    /\ Idle

Next ==
    \/ MainFetch \/ Request \/ Sleep \/ Exhausted \/ MainGiveUp \/ MainParse
    \/ ExtractStart \/ ProcessItem \/ ExtractReturn \/ MainWrite

Spec == Init /\ [][Next]_vars

\* fetch_html(url, tries, backoff) called on its own
InitFetch ==
    /\ pc = "fetch_loop"
    /\ site \in {"", "<no item>"}
    /\ tries \in 0..MaxTries
    /\ backoff \in 0..MaxBackoff
    /\ attempt = 0 /\ html = None /\ io = <<>>
    /\ soup = EmptyDocument /\ items = <<>> /\ idx = 0 /\ locals = NoLocals
    /\ movies = <<>> /\ caught = <<>> /\ written = <<>>

NextFetch == Request \/ Sleep \/ Exhausted

SpecFetch == InitFetch /\ [][NextFetch]_vars

\* extract_movies_from_soup(soup) called on its own, on pages whose items
\* differ in the primary link
InitExtract ==
    /\ pc = "extract"
    /\ site = ""
    /\ soup \in MaskPages
    /\ tries = 0 /\ backoff = 0 /\ attempt = 0 /\ html = None /\ io = <<>>
    /\ items = <<>> /\ idx = 0 /\ locals = NoLocals
    /\ movies = <<>> /\ caught = <<>> /\ written = <<>>

NextExtract == ExtractStart \/ ProcessItem \/ ExtractReturn

SpecExtract == InitExtract /\ [][NextExtract]_vars

\* the same, on pages whose items differ in one block of the details
InitFields ==
    /\ pc = "extract"
    /\ site = ""
    /\ soup \in FieldPages
    /\ tries = 0 /\ backoff = 0 /\ attempt = 0 /\ html = None /\ io = <<>>
    /\ items = <<>> /\ idx = 0 /\ locals = NoLocals
    /\ movies = <<>> /\ caught = <<>> /\ written = <<>>

SpecFields == InitFields /\ [][NextExtract]_vars

(***************************************************************************)
(* Properties of fetch_html and main                                       *)
(***************************************************************************)
IsGet(e) == e.op = "get"

IsFailedGet(e) == e.op = "get" /\ e.res # "200"

IsSleep(e) == e.op = "sleep"

\* the number of requests among the first i events
GetsUpTo(i) == Len(SelectSeq(SubSeq(io, 1, i), IsGet))

\* C5: fetch_html sends at most `tries` requests and always comes to its
\* return; it returns the body of the first attempt answered with status
\* 200 and sends nothing after it; when all `tries` attempts fail (another
\* status, or an exception of the request) it returns None; the exception
\* of a request never leaves the function.
C5_FetchReturnsWithinTries ==
    /\ pc \in {"fetch_loop", "fetch_sleep", "fetch_returned"}
    /\ GetsUpTo(Len(io)) <= tries
    /\ Len(io) <= 2 * tries
    /\ pc # "fetch_returned" => ENABLED NextFetch
    /\ \A i \in 1..Len(io) :
          io[i] = GetEvent("200") => i = Len(io) /\ pc = "fetch_returned"
    /\ pc = "fetch_returned" =>
          IF \E i \in 1..Len(io) : io[i] = GetEvent("200")
          THEN html = Some(site)
          ELSE /\ html = None
               /\ GetsUpTo(Len(io)) = tries
               /\ \A i \in 1..Len(io) : IsGet(io[i]) => IsFailedGet(io[i])

\* fetch_html returned a body on the third attempt, after a transport error
\* and a non-200 status
C5_Witness ==
    /\ pc = "fetch_returned"
    /\ tries = 3
    /\ html = Some(site)
    /\ Len(io) = 5
    /\ io[1] = GetEvent("error")
    /\ io[3] = GetEvent("status")
    /\ io[5] = GetEvent("200")

\* C6: once fetch_html has returned, every failed attempt k is followed by a
\* sleep of backoff * k and then by the request of attempt k + 1, and every
\* sleep stands between a failed attempt and the request that retries it.
C6_SleepOnlyBeforeRetry ==
    pc = "fetch_returned" =>
       /\ \A i \in 1..Len(io) :
             IsFailedGet(io[i]) =>
                /\ i + 2 <= Len(io)
                /\ io[i + 1] = SleepEvent(backoff * GetsUpTo(i))
                /\ IsGet(io[i + 2])
       /\ \A i \in 1..Len(io) :
             IsSleep(io[i]) =>
                /\ i > 1 /\ IsFailedGet(io[i - 1])
                /\ i < Len(io) /\ IsGet(io[i + 1])

\* C7: when main is done it has written the output document exactly once if
\* some attempt was answered with status 200, whatever the body, and has
\* written nothing exactly if every attempt failed.
C7_WritesIffSome200 ==
    pc = "done" =>
       /\ Len(written) <= 1
       /\ Len(written) = 1 <=> \E i \in 1..Len(io) : io[i] = GetEvent("200")

(***************************************************************************)
(* Properties of extract_movies_from_soup                                  *)
(***************************************************************************)
InLoop == pc \in {"extract_loop", "extract_returned"}

\* the positions of the items the loop has been through
Processed == IF InLoop THEN 1..(idx - 1) ELSE {}

IsCaught(j) == \E c \in 1..Len(caught) : caught[c] = j

\* the position in movies of the record of item j, when item j has one
RecordIndex(j) == Cardinality({i \in 1..j : ~IsCaught(i)})

Emitted == {j \in Processed : ~IsCaught(j) /\ RecordIndex(j) <= Len(movies)}

RecordOf(j) == movies[RecordIndex(j)]

\* C1: the records are those of the items whose extraction did not raise,
\* one each and in the order of the items; an item whose exception was
\* caught has no record; the loop goes through every item, whatever raised.
C1_RaisingItemsAreSkippedOthersKept ==
    InLoop =>
       /\ idx <= Len(items) + 1
       /\ \A c \in 1..Len(caught) : caught[c] \in Processed
       /\ \A c \in 1..(Len(caught) - 1) : caught[c] < caught[c + 1]
       /\ Len(movies) = Cardinality({j \in Processed : ~IsCaught(j)})
       /\ \A j \in Emitted :
             /\ RecordOf(j).id = mid(items[j])
             /\ RecordOf(j).title = title(items[j])
             /\ RecordOf(j).description = description(items[j])
       /\ pc = "extract_returned" => idx = Len(items) + 1

\* the first of two items raised and was skipped, the second has its record
C1_Witness ==
    /\ pc = "extract_returned"
    /\ Len(items) = 2
    /\ caught = <<1>>
    /\ Len(movies) = 1
    /\ movies[1].id = mid(items[2])
    /\ mid(items[1]) # mid(items[2])

\* C2: an item without the primary link a.ml-mask is not skipped: it has a
\* record whose title, links.watch, language and thumbnail are null and whose
\* other fields are extracted as usual.
C2_MissingMaskGivesNullFields ==
    \A j \in Processed :
       a(items[j]) = None =>
          /\ j \in Emitted
          /\ RecordOf(j).title = None
          /\ RecordOf(j).links.watch = None
          /\ RecordOf(j).language = None
          /\ RecordOf(j).thumbnail = None
          /\ RecordOf(j).id = mid(items[j])
          /\ RecordOf(j).year = year(items[j])
          /\ RecordOf(j).imdb_rating = imdb_rating(items[j])
          /\ RecordOf(j).duration = duration(items[j])
          /\ RecordOf(j).description = description(items[j])
          /\ RecordOf(j).genres = genres(items[j])

\* the loop of extract_movies_from_soup run on the list its, from position i
RECURSIVE RunLoop(_, _, _)
RunLoop(its, i, st) ==
    IF i > Len(its) THEN st
    ELSE RunLoop(its, i + 1,
            [locals |-> LocalsAfterMask(its[i], st.locals),
             movies |-> IF RaisesInItem(its[i], st.locals) THEN st.movies
                        ELSE Append(st.movies,
                                 movie(its[i], LocalsAfterMask(its[i], st.locals))),
             caught |-> IF RaisesInItem(its[i], st.locals) THEN Append(st.caught, i)
                        ELSE st.caught])

ExtractFrom(its) == RunLoop(its, 1, [locals |-> NoLocals, movies |-> <<>>, caught |-> <<>>])

\* C3: the record of an item depends on the item alone: the same item, put
\* behind any other item on another page, gets the same record there.
C3_RecordIndependentOfOtherItems ==
    \A j \in Emitted :
       \A d \in MaskDescs :
          LET other == ExtractFrom(<<MkItem(d), items[j]>>)
          IN  (other.caught = <<>> \/ other.caught = <<1>>) =>
                 other.movies[Len(other.movies)] = RecordOf(j)

\* the links of the details scope of an item, in document order
ScopeLinks(it) == FindAllTag(hidden(it), "a")

\* the first position among them of a link with text g and destination h
\* (0 when there is none)
LinkPosition(it, g, h) ==
    LET at == {p \in 1..Len(ScopeLinks(it)) :
                  /\ safe_text(Some(ScopeLinks(it)[p])) = Some(g)
                  /\ Get(ScopeLinks(it)[p], "href") = h}
    IN  IF at = {} THEN 0 ELSE CHOOSE p \in at : \A q \in at : p <= q

\* C4: in every record genres and links.genres have the same length, and
\* links.genres[i] is the destination of a link of the item whose text is
\* genres[i], these links following each other in document order.
C4_GenresParallelToLinks ==
    \A j \in Emitted :
       LET m == RecordOf(j)
       IN  /\ Len(m.genres) = Len(m.links.genres)
           /\ \A i \in 1..Len(m.genres) :
                 i <= Len(m.links.genres) =>
                    LinkPosition(items[j], m.genres[i], m.links.genres[i]) > 0
           /\ \A i \in 1..(Len(m.genres) - 1) :
                 i + 1 <= Len(m.links.genres) =>
                    LinkPosition(items[j], m.genres[i], m.links.genres[i])
                       < LinkPosition(items[j], m.genres[i + 1], m.links.genres[i + 1])

\* a record made on the labelled path, from a link without destination
C4_Witness ==
    \E j \in Emitted :
       /\ genre_div(items[j]) # None
       /\ RecordOf(j).genres = <<t_Genre_Action>>
       /\ RecordOf(j).links.genres = <<None>>

\* the decimal digits of a natural number
RECURSIVE DigitsOf(_)
DigitsOf(n) ==
    LET last == CHOOSE c \in Digits : DigitVal(c) = n % 10
    IN  IF n < 10 THEN <<last>> ELSE DigitsOf(n \div 10) \o <<last>>

\* the first non-empty of the two id attributes ("" when there is none)
RawId(it) ==
    LET a1 == Get(it, "data-movie-id")
        a2 == Get(it, "data-id")
    IN  IF a1 # None /\ Val(a1) # <<>> THEN Val(a1)
        ELSE IF a2 # None /\ Val(a2) # <<>> THEN Val(a2)
        ELSE <<>>

\* the first link of the details scope to a release-year page
YearLink(it) ==
    LET ls == SelectSeq(ScopeLinks(it), LAMBDA n : HrefSearch(n, p_release_year))
    IN  IF ls = <<>> THEN None ELSE Some(ls[1])

\* the positions in t where four digits in a row begin
FourDigitsAt(t) ==
    {p \in 1..(Len(t) - 3) : \A k \in 0..3 : t[p + k] \in Digits}

\* the record of the well-formed item
BaseRecord ==
    movie(MkItem(Base("1")), LocalsAfterMask(MkItem(Base("1")), NoLocals))

\* C8: id is an integer or null: the integer that the first non-empty id
\* attribute spells, null when it spells none.  year is an integer or null:
\* the first four digits in a row of the year link's text, null without
\* them, and links.year is the link's destination either way.  imdb_rating
\* is a number or null.  A failed coercion skips no item (only an item
\* without primary link is ever skipped) and leaves the other fields as
\* they are for the well-formed item.
C8_CoercionFailuresStayInTheField ==
    /\ \A j \in Processed : IsCaught(j) => a(items[j]) = None
    /\ \A j \in Emitted :
          LET m   == RecordOf(j)
              raw == Strip(RawId(items[j]))
              yl  == YearLink(items[j])
              yt  == IF yl = None THEN <<>> ELSE GetText(Val(yl))
              p   == CHOOSE p \in FourDigitsAt(yt) : \A q \in FourDigitsAt(yt) : p <= q
          IN  /\ IF raw # <<>> /\ \A i \in 1..Len(raw) : raw[i] \in Digits
                 THEN m.id # None /\ Val(m.id) \in Nat /\ DigitsOf(Val(m.id)) = raw
                 ELSE m.id = None
              /\ m.links.year = (IF yl = None THEN None ELSE Get(Val(yl), "href"))
              /\ IF FourDigitsAt(yt) = {} THEN m.year = None
                 ELSE m.year = Some(1000 * DigitVal(yt[p]) + 100 * DigitVal(yt[p + 1])
                                    + 10 * DigitVal(yt[p + 2]) + DigitVal(yt[p + 3]))
              /\ \/ m.imdb_rating = None
                 \/ /\ Val(m.imdb_rating).whole \in Nat
                    /\ \A i \in 1..Len(Val(m.imdb_rating).frac) :
                          Val(m.imdb_rating).frac[i] \in Digits
              /\ items[j] = MkItem([Base("1") EXCEPT !.id = "text"])
                    => m = [BaseRecord EXCEPT !.id = None]
              /\ \A k \in {"text", "empty"} :
                    /\ items[j] = MkItem([Base("1") EXCEPT !.year = k])
                          => m = [BaseRecord EXCEPT !.year = None]
                    /\ items[j] = MkItem([Base("1") EXCEPT !.imdb = k])
                          => m = [BaseRecord EXCEPT !.imdb_rating = None]

\* the record of an item whose id attribute is not a number: id is null
C8_Witness ==
    \E j \in Emitted :
       /\ items[j] = MkItem([Base("1") EXCEPT !.id = "text"])
       /\ RecordOf(j).id = None
       /\ RecordOf(j).year = Some(2021)

\* the text that an element holds itself, outside its child elements
RECURSIVE OwnTextFrom(_, _)
OwnTextFrom(ks, i) ==
    IF i > Len(ks) THEN <<>>
    ELSE (IF IsElement(ks[i]) THEN <<>> ELSE ks[i].text) \o OwnTextFrom(ks, i + 1)

OwnText(el) == OwnTextFrom(el.kids, 1)

LinksIn(el) == FindAllTag(el, "a")

\* the element carries the label in its own text, in either case of letters
HoldsLabel(el, label) == ContainsI(OwnText(el), label)

\* the links of a labelled element: those inside it, or the element itself
\* when the label is the beginning of a link's text
LinksOf(el) == IF el.tag = "a" THEN <<el>> ELSE LinksIn(el)

\* C9: when the details scope has an element whose own text contains
\* "Country:" and which holds a link, country is the text of its first link
\* and links.country that link's destination; otherwise both are null.
C9_CountryFromLabelledElement ==
    \A j \in Emitted :
       LET m   == RecordOf(j)
           lab == First(SelectSeq(Elements(hidden(items[j])),
                       LAMBDA n : HoldsLabel(n, p_Country) /\ LinksOf(n) # <<>>))
       IN  IF lab # None
           THEN /\ m.country = safe_text(Some(LinksOf(Val(lab))[1]))
                /\ m.links.country = Get(LinksOf(Val(lab))[1], "href")
           ELSE m.country = None /\ m.links.country = None

\* the non-empty texts of a sequence of links
RECURSIVE TextsOf(_)
TextsOf(ls) ==
    IF ls = <<>> THEN <<>>
    ELSE (IF safe_text(Some(Head(ls))) = None THEN <<>>
          ELSE <<Val(safe_text(Some(Head(ls))))>>) \o TextsOf(Tail(ls))

\* C10: when the details scope has an element whose own text contains
\* "Genre:", genres are the non-empty texts of all the links inside it, in
\* document order; only without such an element they are the non-empty texts
\* of the links of the scope to a genre page, each name once, in the order
\* of its first link and with that link's destination.
C10_GenresFromLabelOrElseFallback ==
    \A j \in Emitted :
       LET m   == RecordOf(j)
           lab == First(SelectSeq(Elements(hidden(items[j])),
                       LAMBDA n : HoldsLabel(n, p_Genre)))
           gl  == SelectSeq(ScopeLinks(items[j]), LAMBDA n : HrefSearch(n, p_genre))
           all == TextsOf(gl)
       IN  IF lab # None
           THEN m.genres = TextsOf(LinksOf(Val(lab)))
           ELSE /\ {m.genres[i] : i \in 1..Len(m.genres)} = {all[i] : i \in 1..Len(all)}
                /\ \A i \in 1..Len(m.genres), k \in 1..Len(m.genres) :
                      i < k =>
                         /\ m.genres[i] # m.genres[k]
                         /\ \E p \in 1..Len(all) :
                               /\ all[p] = m.genres[i]
                               /\ \A q \in 1..Len(all) : all[q] = m.genres[k] => p < q
                /\ \A i \in 1..Len(m.genres) :
                      i <= Len(m.links.genres) =>
                         \E p \in 1..Len(gl) :
                            /\ safe_text(Some(gl[p])) = Some(m.genres[i])
                            /\ Get(gl[p], "href") = m.links.genres[i]
                            /\ \A q \in 1..(p - 1) : safe_text(Some(gl[q])) # Some(m.genres[i])

====
